---- MODULE Spec2Model ----
(***************************************************************************)
(* A single-gambler, single-dealer blackjack turn engine:                  *)
(* GameController.play() and the Gambler bankroll ledger.                  *)
(*                                                                         *)
(* Money is counted in half-dollars, and the gambler enters whole-dollar   *)
(* auto-wagers, so that Python's true divisions (wager / 2 for insurance,  *)
(* wager * 3 / 2 for a blackjack) are exact, as they are on such floats.   *)
(* A card is its numeric value: 1 is an Ace, 10 any ten-valued card; the   *)
(* suit and the name of a non-Ace card are cosmetic.                       *)
(***************************************************************************)
EXTENDS Integers, Sequences, FiniteSets, TLC

VARIABLES
    bankroll,    \* Gambler.bankroll (half-dollars)
    auto_wager,  \* Gambler.auto_wager (half-dollars)
    hands,       \* Gambler.hands: sequence of [cards, wager, insurance, status]
    dealer,      \* Dealer.hand: [cards, status]; status "None" when discarded
    pc,          \* position of GameController.play()
    cur,         \* index in hands of the hand play_gambler_hand is playing
    err,         \* the exception raised out of the last operation, or "none"
    settled,     \* amounts settle_up credited, one per hand, in hand order
    last         \* the last operation: what was asked, answered, debited, credited

vars == <<bankroll, auto_wager, hands, dealer, pc, cur, err, settled, last>>

---------------------------------------------------------------------------
(* Bounds of the model *)

\* Largest bankroll (half-dollars) the gambler starts a round with: the
\* gambler sits down with at most this much and cashes out once above it.
MaxBankroll == 6

\* Largest auto-wager, in whole dollars, the gambler enters.
MaxWager == 1

\* The gambler chooses no hit, double or split once the cards in the
\* gambler's hands would number more than this with it (a split counts the
\* two cards its hands are dealt); cards dealt without a choice are not held
\* back.
MaxCards == 5

\* set_new_auto_wager_from_input(retries=3)
Retries == 3

\* Card values the shoe deals: Ace, a middle card, a ten-valued card.
Ranks == {1, 6, 10}

\* What the gambler types at the auto-wager prompt (0 cashes out).
WagerInputs == {2 * k : k \in 0..MaxWager}

---------------------------------------------------------------------------
(* Hand: totals and predicates *)

RECURSIVE SumCards(_)
SumCards(cards) ==
    IF cards = <<>> THEN 0 ELSE Head(cards) + SumCards(Tail(cards))

is_ace(card) == card = 1

has_ace(cards) == \E i \in 1..Len(cards) : is_ace(cards[i])

\* low treats every Ace as 1
low_total(cards) == SumCards(cards)

\* high is reported only with an Ace and when adding 10 does not bust (else 0)
high_total(cards) ==
    IF has_ace(cards) /\ low_total(cards) + 10 <= 21
    THEN low_total(cards) + 10
    ELSE 0

possible_totals(cards) == <<low_total(cards), high_total(cards)>>

final_total(cards) ==
    IF possible_totals(cards)[2] # 0
    THEN possible_totals(cards)[2]
    ELSE possible_totals(cards)[1]

is_soft(cards) == high_total(cards) # 0

is_blackjack(cards) ==
    /\ Len(cards) = 2
    /\ \/ is_ace(cards[1]) /\ cards[2] = 10
       \/ is_ace(cards[2]) /\ cards[1] = 10

is_21(cards) == final_total(cards) = 21

is_busted(cards) == low_total(cards) > 21

is_doubleable(hand) == Len(hand.cards) = 2

is_splittable(hand) ==
    Len(hand.cards) = 2 /\ hand.cards[1] = hand.cards[2]

\* GamblerHand(cards=...): no wager, no insurance, status Pending
GamblerHand(cards) ==
    [cards |-> cards, wager |-> 0, insurance |-> 0, status |-> "Pending"]

DealerHand(cards) == [cards |-> cards, status |-> "Pending"]

NoHand == [cards |-> <<>>, status |-> "None"]

---------------------------------------------------------------------------
(* Gambler: the wager ledger *)

is_finished(b, aw) == aw = 0 \/ b = 0

add_bankroll(b, amount) == b + amount

\* _subtract_bankroll without its check of the bankroll
subtract_bankroll_unchecked(b, amount) == [ok |-> TRUE, bankroll |-> b - amount]

\* the result of _subtract_bankroll: ok is FALSE when InsufficientBankrollError
\* is raised, and then the bankroll is as it was
subtract_bankroll(b, amount) ==
    IF b < amount
    THEN [ok |-> FALSE, bankroll |-> b]
    ELSE [ok |-> TRUE, bankroll |-> b - amount]

can_place_wager(b, amount) == amount <= b

can_place_auto_wager(b, aw) == can_place_wager(b, aw)

can_place_insurance_wager(b, hand) == can_place_wager(b, hand.wager \div 2)

\* place_hand_wager: subtract from the bankroll, then add to the hand's wager
place_hand_wager(b, wager, hand) ==
    LET r == subtract_bankroll(b, wager)
    IN  [ok |-> r.ok, bankroll |-> r.bankroll,
         hand |-> IF r.ok THEN [hand EXCEPT !.wager = @ + wager] ELSE hand]

\* place_insurance_wager taking the whole wager as the insurance amount
place_insurance_wager_whole(b, hand) ==
    LET insurance_amount == hand.wager
        r == subtract_bankroll(b, insurance_amount)
    IN  [ok |-> r.ok, bankroll |-> r.bankroll,
         hand |-> IF r.ok THEN [hand EXCEPT !.insurance = insurance_amount]
                  ELSE hand]

\* insurance is half the amount wagered on the hand
place_insurance_wager(b, hand) ==
    LET insurance_amount == hand.wager \div 2
        r == subtract_bankroll(b, insurance_amount)
    IN  [ok |-> r.ok, bankroll |-> r.bankroll,
         hand |-> IF r.ok THEN [hand EXCEPT !.insurance = insurance_amount]
                  ELSE hand]

\* set_new_auto_wager taking any amount entered
set_new_auto_wager_any(b, new) == TRUE

\* set_new_auto_wager: FALSE when InsufficientBankrollError is raised
set_new_auto_wager_ok(b, new) == ~(new > b)

\* set_new_auto_wager_from_input: the auto-wager is zeroed, then the first
\* entry the bankroll covers is set; after `Retries` refused entries the
\* program exits (max_retries_exit)
RECURSIVE first_accepted(_, _, _)
first_accepted(b, entries, k) ==
    IF k > Retries THEN 0
    ELSE IF set_new_auto_wager_ok(b, entries[k]) THEN k
    ELSE first_accepted(b, entries, k + 1)

set_new_auto_wager_from_input(b, entries) ==
    LET k == first_accepted(b, entries, 1)
    IN  IF k = 0
        THEN [exited |-> TRUE, auto_wager |-> 0]
        ELSE [exited |-> FALSE, auto_wager |-> entries[k]]

\* check_gambler_wager: asked whether to change when the auto-wager can be
\* placed, forced to enter a new one when it cannot
check_gambler_wager(b, aw, response, entries) ==
    IF can_place_auto_wager(b, aw)
    THEN IF response = "yes"
         THEN set_new_auto_wager_from_input(b, entries)
         ELSE [exited |-> FALSE, auto_wager |-> aw]
    ELSE set_new_auto_wager_from_input(b, entries)

---------------------------------------------------------------------------
(* Dealer *)

up_card(d) == d.cards[1]

\* is_showing_ace comparing the up-card's name with a name no card has
is_showing_ace_never(d) == FALSE

is_showing_ace(d) == is_ace(up_card(d))

\* is_showing_face_card that takes an Ace for a face card and misses the tens
is_showing_face_card_ace(d) == is_ace(up_card(d))

is_showing_face_card(d) == up_card(d) = 10

---------------------------------------------------------------------------
(* Payouts *)

\* perform_hand_payout: the amount credited; odds is <<antecedent, consequent>>
perform_hand_payout(hand, payout_type, odds) ==
    IF payout_type = "winning_wager"
    THEN (hand.wager * odds[1]) \div odds[2]
    ELSE IF payout_type = "wager_reclaim" THEN hand.wager
    ELSE IF payout_type = "winning_insurance"
    THEN (hand.insurance * odds[1]) \div odds[2]
    ELSE hand.insurance

\* pay_out_hand that pays every winning wager at 3:2
pay_out_hand_all_3_2(hand, payout_type) ==
    IF payout_type \in {"wager", "blackjack"}
    THEN perform_hand_payout(hand, "winning_wager", <<3, 2>>)
         + perform_hand_payout(hand, "wager_reclaim", <<>>)
    ELSE IF payout_type = "insurance"
    THEN perform_hand_payout(hand, "winning_insurance", <<2, 1>>)
         + perform_hand_payout(hand, "insurance_reclaim", <<>>)
    ELSE IF payout_type = "push"
    THEN perform_hand_payout(hand, "wager_reclaim", <<>>)
    ELSE 0

\* pay_out_hand: the total the composite payout credits
pay_out_hand(hand, payout_type) ==
    IF payout_type = "wager"
    THEN perform_hand_payout(hand, "winning_wager", <<1, 1>>)
         + perform_hand_payout(hand, "wager_reclaim", <<>>)
    ELSE IF payout_type = "blackjack"
    THEN perform_hand_payout(hand, "winning_wager", <<3, 2>>)
         + perform_hand_payout(hand, "wager_reclaim", <<>>)
    ELSE IF payout_type = "insurance"
    THEN perform_hand_payout(hand, "winning_insurance", <<2, 1>>)
         + perform_hand_payout(hand, "insurance_reclaim", <<>>)
    ELSE IF payout_type = "push"
    THEN perform_hand_payout(hand, "wager_reclaim", <<>>)
    ELSE 0

\* GamblerHand.payout('insurance', '2:1'): the winning insurance at the odds
\* given, and the insurance wager reclaimed
hand_payout(hand, kind, odds) ==
    perform_hand_payout(hand, "winning_insurance", odds)
    + perform_hand_payout(hand, "insurance_reclaim", <<>>)

---------------------------------------------------------------------------
(* GameController: the operations on hands *)

\* hit_hand drawing a card from the shoe and not adding it to the hand
hit_hand_no_card(hand, card) == hand

\* hit_hand: the card the shoe deals is appended to the hand
hit_hand(hand, card) == [hand EXCEPT !.cards = Append(@, card)]

\* split_hand moving the card to a new hand and placing no wager on it
split_hand_no_wager(b, hs, i) ==
    [ok |-> TRUE, bankroll |-> b,
     hands |-> Append([hs EXCEPT ![i].cards = <<hs[i].cards[1]>>],
                      GamblerHand(<<hs[i].cards[2]>>))]

\* split_hand: the second card is popped off the hand, a new hand is made of
\* it, the same wager is placed on the new hand, and the new hand is appended.
\* When place_hand_wager raises, the card is already popped.
split_hand(b, hs, i) ==
    LET split_card == hs[i].cards[2]
        popped == [hs EXCEPT ![i].cards = <<hs[i].cards[1]>>]
        new_hand == GamblerHand(<<split_card>>)
        r == place_hand_wager(b, popped[i].wager, new_hand)
    IN  [ok |-> r.ok, bankroll |-> r.bankroll,
         hands |-> IF r.ok THEN Append(popped, r.hand) ELSE popped]

\* double_hand that places twice the hand's wager on it
double_hand_twice(b, hand, card) ==
    LET r == place_hand_wager(b, 2 * hand.wager, hand)
    IN  [ok |-> r.ok, bankroll |-> r.bankroll,
         hand |-> IF r.ok THEN hit_hand(r.hand, card) ELSE r.hand]

\* double_hand: the hand's wager is placed on it again, then the hand is hit.
\* When place_hand_wager raises, no card is dealt.
double_hand(b, hand, card) ==
    LET r == place_hand_wager(b, hand.wager, hand)
    IN  [ok |-> r.ok, bankroll |-> r.bankroll,
         hand |-> IF r.ok THEN hit_hand(r.hand, card) ELSE r.hand]

\* get_gambler_hand_action offering a split on any hand of two cards
hand_options_any_two(b, hand) ==
    {"Hit", "Stand"}
    \cup (IF is_doubleable(hand) /\ can_place_wager(b, hand.wager)
          THEN {"Double"} ELSE {})
    \cup (IF Len(hand.cards) = 2 /\ can_place_wager(b, hand.wager)
          THEN {"Split"} ELSE {})

\* get_gambler_hand_action: the options offered on the hand
hand_options(b, hand) ==
    {"Hit", "Stand"}
    \cup (IF is_doubleable(hand) /\ can_place_wager(b, hand.wager)
          THEN {"Double"} ELSE {})
    \cup (IF is_splittable(hand) /\ can_place_wager(b, hand.wager)
          THEN {"Split"} ELSE {})

\* play_gambler_hand ending a busted hand and leaving a hand of 21 in play
finish_action_no_21(hand) ==
    IF is_busted(hand.cards) THEN [hand EXCEPT !.status = "Busted"] ELSE hand

\* play_gambler_hand, after the action, without the check for a bust
finish_action_no_bust(hand) ==
    IF is_21(hand.cards) THEN [hand EXCEPT !.status = "Stood"] ELSE hand

\* play_gambler_hand, after the action: a hand of 21 is Stood, a busted hand
\* is Busted
finish_action(hand) ==
    IF is_21(hand.cards) THEN [hand EXCEPT !.status = "Stood"]
    ELSE IF is_busted(hand.cards) THEN [hand EXCEPT !.status = "Busted"]
    ELSE hand

\* play_gambler_hand: one pass of the loop from the answer of the gambler on
\* (Split passes `continue`; an exception leaves the loop)
apply_action(b, hs, i, action, card) ==
    IF action = "Hit"
    THEN [ok |-> TRUE, bankroll |-> b,
          hands |-> [hs EXCEPT ![i] = finish_action(hit_hand(hs[i], card))]]
    ELSE IF action = "Stand"
    THEN [ok |-> TRUE, bankroll |-> b,
          hands |-> [hs EXCEPT ![i] =
                        finish_action([hs[i] EXCEPT !.status = "Stood"])]]
    ELSE IF action = "Double"
    THEN LET r == double_hand(b, hs[i], card)
         IN  [ok |-> r.ok, bankroll |-> r.bankroll,
              hands |-> [hs EXCEPT ![i] =
                  IF r.ok
                  THEN finish_action([r.hand EXCEPT !.status = "Doubled"])
                  ELSE r.hand]]
    ELSE split_hand(b, hs, i)

\* play_gambler_hand leaving its loop after a split, where the code continues
loop_position_split_leaves(hand) ==
    IF hand.status # "Playing" \/ Len(hand.cards) = 1 THEN "turn" ELSE "ask"

\* play_gambler_hand: where the loop is after a pass; "turn" is back in
\* play_gambler_turn, "hit_split" is about to add the second card of a split
\* hand, "ask" is waiting for the gambler's action
loop_position(hand) ==
    IF hand.status # "Playing" THEN "turn"
    ELSE IF Len(hand.cards) = 1 THEN "hit_split"
    ELSE "ask"

\* play_gambler_hand hitting a split hand without the rule for split Aces
hit_split_hand_any_rank(hand, card) == hit_hand(hand, card)

\* play_gambler_hand: a hand of one card is hit; split Aces get that card
\* only and are Blackjack or Stood
hit_split_hand(hand, card) ==
    LET h == hit_hand(hand, card)
    IN  IF is_ace(h.cards[1])
        THEN IF is_blackjack(h.cards)
             THEN [h EXCEPT !.status = "Blackjack"]
             ELSE [h EXCEPT !.status = "Stood"]
        ELSE h

\* play_dealer_turn with a dealer who stands on every 17
dealer_hits_under_17(cards) == final_total(cards) < 17

\* play_dealer_turn: the dealer hits under 17 and must hit a soft 17
dealer_hits(cards) ==
    LET total == final_total(cards)
    IN  total < 17 \/ (total = 17 /\ is_soft(cards))

\* play_dealer_turn: one pass of the loop
dealer_pass(d, card) ==
    LET h == IF dealer_hits(d.cards)
             THEN hit_hand(d, card)
             ELSE [d EXCEPT !.status = "Stood"]
    IN  IF is_busted(h.cards) THEN [h EXCEPT !.status = "Busted"] ELSE h

\* settle_hand that looks at the dealer's bust before the gambler's
settle_hand_dealer_first(hand, d) ==
    IF d.status = "Busted" THEN "wager"
    ELSE IF hand.status = "Busted" THEN "loss"
    ELSE IF final_total(hand.cards) > final_total(d.cards) THEN "wager"
    ELSE IF final_total(hand.cards) = final_total(d.cards) THEN "push"
    ELSE "loss"

\* settle_hand: the composite payout of the hand against the dealer's hand
settle_hand(hand, d) ==
    IF hand.status = "Busted" THEN "loss"
    ELSE IF d.status = "Busted" THEN "wager"
    ELSE IF final_total(hand.cards) > final_total(d.cards) THEN "wager"
    ELSE IF final_total(hand.cards) = final_total(d.cards) THEN "push"
    ELSE "loss"

\* settle_hand handing the insurance wager back with the hand's payout
settle_credit_with_insurance(hand, d) ==
    hand.insurance +
        (IF settle_hand(hand, d) = "loss" THEN 0
         ELSE pay_out_hand(hand, settle_hand(hand, d)))

\* settle_hand: what the hand's composite payout adds to the bankroll
settle_credit(hand, d) ==
    IF settle_hand(hand, d) = "loss" THEN 0
    ELSE pay_out_hand(hand, settle_hand(hand, d))

RECURSIVE SumSeq(_)
SumSeq(s) == IF s = <<>> THEN 0 ELSE Head(s) + SumSeq(Tail(s))

\* settle_up: every hand of the gambler, in order
settle_up(hs, d) == [i \in 1..Len(hs) |-> settle_credit(hs[i], d)]

---------------------------------------------------------------------------
(* GameController.play_pre_turn *)

\* the question play_pre_turn asks the gambler, if any
pre_turn_question(b, g, d) ==
    IF is_showing_ace(d)
    THEN IF is_blackjack(g.cards) THEN "even money"
         ELSE IF can_place_insurance_wager(b, g) THEN "insurance"
         ELSE "none"
    ELSE "none"

\* ret is the value returned ("raised" when an exception leaves the function),
\* amount what was asked of the bankroll, credit what was paid into it
play_pre_turn(b, g, d, answer) ==
    LET gambler_has_blackjack == is_blackjack(g.cards)
        dealer_has_blackjack == is_blackjack(d.cards)
        paid(payout_type) ==
            [ret |-> "turn over", bankroll |-> add_bankroll(b, pay_out_hand(g, payout_type)),
             hand |-> g, amount |-> 0, credit |-> pay_out_hand(g, payout_type)]
        unpaid(ret) ==
            [ret |-> ret, bankroll |-> b, hand |-> g, amount |-> 0, credit |-> 0]
    IN
    IF is_showing_ace(d) \/ is_showing_face_card(d)
    THEN IF is_showing_ace(d)
         THEN IF gambler_has_blackjack
              THEN IF answer = "yes" THEN paid("wager")
                   ELSE IF dealer_has_blackjack THEN paid("push")
                   ELSE paid("blackjack")
              ELSE IF can_place_insurance_wager(b, g) /\ answer = "yes"
                   THEN LET p == place_insurance_wager(b, g)
                            won == hand_payout(p.hand, "insurance", <<2, 1>>)
                        IN  IF ~p.ok
                            THEN [ret |-> "raised", bankroll |-> p.bankroll,
                                  hand |-> p.hand, amount |-> g.wager \div 2,
                                  credit |-> 0]
                            ELSE IF dealer_has_blackjack
                            THEN [ret |-> "turn over",
                                  bankroll |-> add_bankroll(p.bankroll, won),
                                  hand |-> p.hand, amount |-> g.wager \div 2,
                                  credit |-> won]
                            ELSE [ret |-> "play turn", bankroll |-> p.bankroll,
                                  hand |-> p.hand, amount |-> g.wager \div 2,
                                  credit |-> 0]
                   ELSE IF dealer_has_blackjack THEN unpaid("turn over")
                        ELSE unpaid("play turn")
         ELSE IF dealer_has_blackjack
              THEN IF gambler_has_blackjack THEN paid("push")
                   ELSE unpaid("turn over")
              ELSE IF gambler_has_blackjack THEN paid("blackjack")
                   ELSE unpaid("play turn")
    ELSE IF gambler_has_blackjack THEN paid("blackjack")
         ELSE unpaid("play turn")

---------------------------------------------------------------------------
(* GameController.play: the state machine *)

\* what the last operation was: the hand it was about, the question the
\* gambler was asked and the answer, the amount asked of the bankroll
\* (_subtract_bankroll), the bankroll before it, and the value it returned
Last(op, h, asked, answer, amount, before, ret) ==
    [op |-> op, h |-> h, asked |-> asked, answer |-> answer,
     amount |-> amount, before |-> before, ret |-> ret]

\* Player.discard_hands: every hand the player holds is taken from the player
discard_hands(hs) == SelectSeq(hs, LAMBDA hand : FALSE)

\* deal: four cards, gambler, dealer, gambler, dealer; the gambler's hand is
\* appended to the hands the gambler holds, the dealer's hand is replaced
deal(hs, c1, c2, c3, c4) ==
    [hands |-> Append(hs, GamblerHand(<<c1, c3>>)),
     dealer |-> DealerHand(<<c2, c4>>)]

\* place_auto_wager: the auto-wager is placed on the first hand
place_auto_wager(b, aw, hs) ==
    LET r == place_hand_wager(b, aw, hs[1])
    IN  [ok |-> r.ok, bankroll |-> r.bankroll,
         hands |-> [hs EXCEPT ![1] = r.hand]]

\* play_gambler_turn taking the hands that stood for hands still to be played
PendingOrStood(hs) ==
    {i \in 1..Len(hs) : hs[i].status \in {"Pending", "Stood"}}

\* play_gambler_turn: the hands not played yet
Pending(hs) == {i \in 1..Len(hs) : hs[i].status = "Pending"}

\* next(hand for hand in gambler.hands if hand.status == 'Pending')
next_pending(hs) == CHOOSE i \in Pending(hs) : \A j \in Pending(hs) : i <= j

\* play_gambler_turn asking for the dealer's turn for any hand not Busted
needs_dealer_turn_not_busted(hs) ==
    \E i \in 1..Len(hs) : hs[i].status # "Busted"

\* play_gambler_turn's result: whether the dealer's hand needs to be played
needs_dealer_turn(hs) ==
    \E i \in 1..Len(hs) : hs[i].status \in {"Doubled", "Stood"}

Init ==
    /\ bankroll \in 0..MaxBankroll
    /\ auto_wager \in WagerInputs
    /\ hands = <<>>
    /\ dealer = NoHand
    /\ pc = "loop"
    /\ cur = 0
    /\ err = "none"
    /\ settled = <<>>
    /\ last = Last("init", 0, "none", "none", 0, bankroll, "none")

\* play: the gambler is finished at the head of the loop
SessionEnd ==
    /\ pc = "loop"
    /\ is_finished(bankroll, auto_wager)
    /\ pc' = "done"
    /\ last' = Last("end", 0, "none", "none", 0, bankroll, "none")
    /\ UNCHANGED <<bankroll, auto_wager, hands, dealer, cur, err, settled>>

\* play: the head of a turn, from check_gambler_wager to place_auto_wager.
\* A gambler whose bankroll is above MaxBankroll cashes out.
RoundStart ==
    /\ pc = "loop"
    /\ ~is_finished(bankroll, auto_wager)
    /\ \E response \in {"yes", "no"}, entries \in [1..Retries -> WagerInputs],
          c1 \in Ranks, c2 \in Ranks, c3 \in Ranks, c4 \in Ranks :
        /\ bankroll > MaxBankroll => (response = "yes" /\ entries[1] = 0)
        /\ LET w == check_gambler_wager(bankroll, auto_wager, response, entries)
               d == deal(hands, c1, c2, c3, c4)
               p == place_auto_wager(bankroll, w.auto_wager, d.hands)
           IN  /\ auto_wager' = w.auto_wager
               /\ IF w.exited \/ is_finished(bankroll, w.auto_wager)
                  THEN /\ pc' = "done"
                       /\ last' = Last("end", 0, "none", "none", 0, bankroll, "none")
                       /\ UNCHANGED <<bankroll, hands, dealer, err>>
                  ELSE /\ bankroll' = p.bankroll
                       /\ hands' = p.hands
                       /\ dealer' = d.dealer
                       /\ err' = IF p.ok THEN "none" ELSE "InsufficientBankroll"
                       /\ pc' = IF p.ok THEN "pre_turn" ELSE "raised"
                       /\ last' = Last("place_auto_wager", 1, "none", "none",
                                       w.auto_wager, bankroll, "none")
    /\ UNCHANGED <<cur, settled>>

\* play with a play_pre_turn that pays a blackjack against a low up-card and
\* does not return 'turn over' for it
PlayPreTurnPlaysOn ==
    /\ pc = "pre_turn"
    /\ LET q == pre_turn_question(bankroll, hands[1], dealer)
       IN  \E answer \in (IF q = "none" THEN {"none"} ELSE {"yes", "no"}) :
            LET r == play_pre_turn(bankroll, hands[1], dealer, answer)
                low_card == ~is_showing_ace(dealer) /\ ~is_showing_face_card(dealer)
            IN  /\ bankroll' = r.bankroll
                /\ hands' = [hands EXCEPT ![1] = r.hand]
                /\ err' = IF r.ret = "raised" THEN "InsufficientBankroll"
                          ELSE "none"
                /\ pc' = IF r.ret = "turn over" /\ ~low_card THEN "finalize"
                         ELSE IF r.ret \in {"play turn", "turn over"} THEN "turn"
                         ELSE "raised"
                /\ last' = Last("play_pre_turn", 1, q, answer, r.amount,
                                bankroll, r.ret)
    /\ UNCHANGED <<auto_wager, dealer, cur, settled>>

\* play: play_pre_turn, and whether the turn is over after it
PlayPreTurn ==
    /\ pc = "pre_turn"
    /\ LET q == pre_turn_question(bankroll, hands[1], dealer)
       IN  \E answer \in (IF q = "none" THEN {"none"} ELSE {"yes", "no"}) :
            LET r == play_pre_turn(bankroll, hands[1], dealer, answer)
            IN  /\ bankroll' = r.bankroll
                /\ hands' = [hands EXCEPT ![1] = r.hand]
                /\ err' = IF r.ret = "raised" THEN "InsufficientBankroll"
                          ELSE "none"
                /\ pc' = IF r.ret = "turn over" THEN "finalize"
                         ELSE IF r.ret = "play turn" THEN "turn"
                         ELSE "raised"
                /\ last' = Last("play_pre_turn", 1, q, answer, r.amount,
                                bankroll, r.ret)
    /\ UNCHANGED <<auto_wager, dealer, cur, settled>>

\* play_gambler_turn: the next Pending hand is played
PlayGamblerHand ==
    /\ pc = "turn"
    /\ Pending(hands) # {}
    /\ LET i == next_pending(hands)
       IN  /\ hands' = [hands EXCEPT ![i].status = "Playing"]
           /\ cur' = i
           /\ pc' = loop_position(hands'[i])
           /\ last' = Last("play_gambler_hand", i, "none", "none", 0, bankroll, "none")
    /\ UNCHANGED <<bankroll, auto_wager, dealer, err, settled>>

\* play_gambler_turn returns; play goes on to the dealer's turn or settle_up
GamblerTurnDone ==
    /\ pc = "turn"
    /\ Pending(hands) = {}
    /\ pc' = IF needs_dealer_turn(hands) THEN "dealer" ELSE "settle"
    /\ cur' = 0
    /\ last' = Last("play_gambler_turn", 0, "none", "none", 0, bankroll,
                    IF needs_dealer_turn(hands) THEN "True" ELSE "False")
    /\ UNCHANGED <<bankroll, auto_wager, hands, dealer, err, settled>>

\* play_gambler_hand: the second card of a split hand
HitSplitHand ==
    /\ pc = "hit_split"
    /\ \E card \in Ranks :
        /\ hands' = [hands EXCEPT ![cur] = hit_split_hand(hands[cur], card)]
        /\ pc' = loop_position(hands'[cur])
    /\ last' = Last("hit_split", cur, "none", "none", 0, bankroll, "none")
    /\ UNCHANGED <<bankroll, auto_wager, dealer, cur, err, settled>>

\* the number of cards in the gambler's hands
CardsHeld(hs) == SumSeq([i \in 1..Len(hs) |-> Len(hs[i].cards)])

\* play_gambler_hand: the gambler picks one of the options offered
GamblerAction(action) ==
    /\ pc = "ask"
    /\ action \in hand_options(bankroll, hands[cur])
    /\ \E card \in Ranks :
        LET r == apply_action(bankroll, hands, cur, action, card)
        IN  /\ bankroll' = r.bankroll
            /\ hands' = r.hands
            /\ err' = IF r.ok THEN "none" ELSE "InsufficientBankroll"
            /\ pc' = IF r.ok THEN loop_position(hands'[cur]) ELSE "raised"
    /\ last' = Last(action, cur, "action", action,
                    IF action \in {"Double", "Split"} THEN hands[cur].wager
                    ELSE 0,
                    bankroll, "none")
    /\ UNCHANGED <<auto_wager, dealer, cur, settled>>

GamblerHit ==
    /\ CardsHeld(hands) + 1 <= MaxCards
    /\ GamblerAction("Hit")

GamblerStand == GamblerAction("Stand")

GamblerDouble ==
    /\ CardsHeld(hands) + 1 <= MaxCards
    /\ GamblerAction("Double")

GamblerSplit ==
    /\ CardsHeld(hands) + 2 <= MaxCards
    /\ GamblerAction("Split")

\* play_dealer_turn: the dealer's hand is set to Playing
DealerStart ==
    /\ pc = "dealer"
    /\ dealer' = [dealer EXCEPT !.status = "Playing"]
    /\ pc' = "dealer_loop"
    /\ last' = Last("play_dealer_turn", 0, "none", "none", 0, bankroll, "none")
    /\ UNCHANGED <<bankroll, auto_wager, hands, cur, err, settled>>

\* play_dealer_turn: one pass of the loop
DealerPass ==
    /\ pc = "dealer_loop"
    /\ \E card \in Ranks : dealer' = dealer_pass(dealer, card)
    /\ pc' = IF dealer'.status = "Playing" THEN "dealer_loop" ELSE "settle"
    /\ last' = Last("dealer_pass", 0, "none", "none", 0, bankroll, "none")
    /\ UNCHANGED <<bankroll, auto_wager, hands, cur, err, settled>>

SettleUp ==
    /\ pc = "settle"
    /\ settled' = settle_up(hands, dealer)
    /\ bankroll' = add_bankroll(bankroll, SumSeq(settled'))
    /\ pc' = "finalize"
    /\ last' = Last("settle_up", 0, "none", "none", 0, bankroll, "none")
    /\ UNCHANGED <<auto_wager, hands, dealer, cur, err>>

\* finalize_turn discarding the dealer's hand and not the gambler's hands
FinalizeTurnDealerOnly ==
    /\ pc = "finalize"
    /\ dealer' = NoHand
    /\ settled' = <<>>
    /\ pc' = "loop"
    /\ last' = Last("finalize_turn", 0, "none", "none", 0, bankroll, "none")
    /\ UNCHANGED <<bankroll, auto_wager, hands, cur, err>>

\* finalize_turn: both players' hands are discarded
FinalizeTurn ==
    /\ pc = "finalize"
    /\ hands' = discard_hands(hands)
    /\ dealer' = NoHand
    /\ settled' = <<>>
    /\ pc' = "loop"
    /\ last' = Last("finalize_turn", 0, "none", "none", 0, bankroll, "none")
    /\ UNCHANGED <<bankroll, auto_wager, cur, err>>

Next ==
    \/ SessionEnd
    \/ RoundStart
    \/ PlayPreTurn
    \/ PlayGamblerHand
    \/ GamblerTurnDone
    \/ HitSplitHand
    \/ GamblerHit
    \/ GamblerStand
    \/ GamblerDouble
    \/ GamblerSplit
    \/ DealerStart
    \/ DealerPass
    \/ SettleUp
    \/ FinalizeTurn

Spec == Init /\ [][Next]_vars

---------------------------------------------------------------------------
(* The operations called directly, by a driver that does not first ask       *)
(* whether the bankroll covers them: each is attempted with a bankroll       *)
(* smaller than the amount it needs.  The call returns or raises, and the    *)
(* driver goes no further.                                                   *)

\* double_hand(hand) on the hand being played
CallDoubleHand ==
    /\ pc = "ask"
    /\ is_doubleable(hands[cur])
    /\ bankroll < hands[cur].wager
    /\ \E card \in Ranks :
        LET r == double_hand(bankroll, hands[cur], card)
        IN  /\ bankroll' = r.bankroll
            /\ hands' = [hands EXCEPT ![cur] = r.hand]
            /\ err' = IF r.ok THEN "none" ELSE "InsufficientBankroll"
            /\ pc' = IF r.ok THEN "returned" ELSE "raised"
    /\ last' = Last("double_hand", cur, "none", "none", hands[cur].wager, bankroll,
                    "none")
    /\ UNCHANGED <<auto_wager, dealer, cur, settled>>

\* split_hand(hand) on the hand being played
CallSplitHand ==
    /\ pc = "ask"
    /\ is_splittable(hands[cur])
    /\ bankroll < hands[cur].wager
    /\ LET r == split_hand(bankroll, hands, cur)
       IN  /\ bankroll' = r.bankroll
           /\ hands' = r.hands
           /\ err' = IF r.ok THEN "none" ELSE "InsufficientBankroll"
           /\ pc' = IF r.ok THEN "returned" ELSE "raised"
    /\ last' = Last("split_hand", cur, "none", "none", hands[cur].wager, bankroll,
                    "none")
    /\ UNCHANGED <<auto_wager, dealer, cur, settled>>

\* gambler.place_insurance_wager() on the hand dealt
CallPlaceInsuranceWager ==
    /\ pc = "pre_turn"
    /\ bankroll < hands[1].wager \div 2
    /\ LET r == place_insurance_wager(bankroll, hands[1])
       IN  /\ bankroll' = r.bankroll
           /\ hands' = [hands EXCEPT ![1] = r.hand]
           /\ err' = IF r.ok THEN "none" ELSE "InsufficientBankroll"
           /\ pc' = IF r.ok THEN "returned" ELSE "raised"
    /\ last' = Last("place_insurance_wager", 1, "none", "none",
                    hands[1].wager \div 2, bankroll, "none")
    /\ UNCHANGED <<auto_wager, dealer, cur, settled>>

\* gambler.place_auto_wager() on the hand dealt
CallPlaceAutoWager ==
    /\ pc = "pre_turn"
    /\ bankroll < auto_wager
    /\ LET r == place_auto_wager(bankroll, auto_wager, hands)
       IN  /\ bankroll' = r.bankroll
           /\ hands' = r.hands
           /\ err' = IF r.ok THEN "none" ELSE "InsufficientBankroll"
           /\ pc' = IF r.ok THEN "returned" ELSE "raised"
    /\ last' = Last("place_auto_wager", 1, "none", "none", auto_wager, bankroll,
                    "none")
    /\ UNCHANGED <<auto_wager, dealer, cur, settled>>

NextCalls ==
    \/ Next
    \/ CallDoubleHand
    \/ CallSplitHand
    \/ CallPlaceInsuranceWager
    \/ CallPlaceAutoWager

SpecCalls == Init /\ [][NextCalls]_vars

---------------------------------------------------------------------------
(* Properties *)

\* what the last operation paid into the bankroll, over what it took from it
NetChange == bankroll - last.before

AfterPreTurn == last.op = "play_pre_turn"

GamblerBlackjack == is_blackjack(hands[1].cards)

DealerBlackjack == is_blackjack(dealer.cards)

\* C1: the bankroll is never negative, and a subtraction of more than the
\* bankroll holds is rejected with InsufficientBankroll and leaves the
\* bankroll as it was.
C1_BankrollNeverNegative ==
    /\ bankroll >= 0
    /\ [][/\ bankroll' >= 0
          /\ last'.amount > bankroll =>
                (err' = "InsufficientBankroll" /\ bankroll' = bankroll)]_vars

\* a subtraction of more than the bankroll holds was attempted and rejected
C1_Witness ==
    /\ err = "InsufficientBankroll"
    /\ last.amount > last.before
    /\ bankroll = last.before

\* C2: settle_hand gives every hand an outcome, decided by the two statuses
\* and the final totals: a Busted hand is credited nothing, even against a
\* Busted dealer; else a Busted dealer pays twice the wager; else the higher
\* total pays twice the wager, equal totals return the wager, a lower total
\* pays nothing.
C2_SettleHandTotal ==
    last.op = "settle_up" =>
        /\ Len(settled) = Len(hands)
        /\ \A i \in 1..Len(hands) :
            LET h == hands[i]
                g == final_total(h.cards)
                t == final_total(dealer.cards)
            IN  settled[i] =
                    IF h.status = "Busted" THEN 0
                    ELSE IF dealer.status = "Busted" THEN 2 * h.wager
                    ELSE IF g > t THEN 2 * h.wager
                    ELSE IF g = t THEN h.wager
                    ELSE 0
        /\ NetChange = SumSeq(settled)

\* a Busted hand settled as a loss against a Busted dealer, beside a hand
\* that won
C2_Witness ==
    /\ last.op = "settle_up"
    /\ dealer.status = "Busted"
    /\ \E i, j \in 1..Len(hands) :
        /\ hands[i].status = "Busted" /\ settled[i] = 0
        /\ hands[j].status # "Busted" /\ settled[j] = 2 * hands[j].wager

\* C3: with an up-card that is not an Ace, a dealer blackjack ends the turn,
\* the gambler credited the wager when holding a blackjack too and nothing
\* otherwise; without a dealer blackjack a gambler blackjack is credited two
\* and a half times the wager and the turn is over, and any other hand is
\* credited nothing and goes on to be played.
C3_PreTurnNoAce ==
    (AfterPreTurn /\ ~is_ace(dealer.cards[1])) =>
        LET w == hands[1].wager
        IN  /\ last.asked = "none"
            /\ hands[1].insurance = 0
            /\ IF DealerBlackjack
               THEN /\ last.ret = "turn over" /\ pc = "finalize"
                    /\ NetChange = IF GamblerBlackjack THEN w ELSE 0
               ELSE IF GamblerBlackjack
               THEN /\ last.ret = "turn over" /\ pc = "finalize"
                    /\ 2 * NetChange = 5 * w
               ELSE /\ last.ret = "play turn" /\ pc = "turn"
                    /\ NetChange = 0

\* the dealer shows a ten over a buried Ace and the gambler holds no blackjack
C3_Witness ==
    /\ AfterPreTurn
    /\ dealer.cards = <<10, 1>>
    /\ ~GamblerBlackjack
    /\ last.ret = "turn over"
    /\ NetChange = 0

\* C4: when the dealer shows an Ace and the gambler holds a blackjack the
\* turn is over without the hand being played; even money credits twice the
\* wager whatever the dealer holds, and declining it credits the wager against
\* a dealer blackjack and two and a half times the wager otherwise.
C4_EvenMoney ==
    (AfterPreTurn /\ is_ace(dealer.cards[1]) /\ GamblerBlackjack) =>
        LET w == hands[1].wager
        IN  /\ last.asked = "even money"
            /\ last.ret = "turn over" /\ pc = "finalize"
            /\ hands[1].status = "Pending" /\ Len(hands) = 1
            /\ dealer.status = "Pending"
            /\ last.answer = "yes" => NetChange = 2 * w
            /\ last.answer # "yes" =>
                    IF DealerBlackjack THEN NetChange = w
                    ELSE 2 * NetChange = 5 * w

\* even money taken against a dealer who holds no blackjack
C4_Witness ==
    /\ AfterPreTurn
    /\ is_ace(dealer.cards[1]) /\ GamblerBlackjack /\ ~DealerBlackjack
    /\ last.answer = "yes"
    /\ NetChange = 2 * hands[1].wager

\* C5: when the dealer shows an Ace and the gambler holds no blackjack,
\* insurance is offered only if the bankroll covers half the wager; bought, it
\* takes half the wager from the bankroll, and a dealer blackjack then pays
\* three times the insurance, nothing for the hand, and ends the turn, while
\* without one nothing is paid and the hand is played; not offered or declined,
\* nothing is taken or paid and the turn is over exactly on a dealer blackjack.
C5_Insurance ==
    (AfterPreTurn /\ is_ace(dealer.cards[1]) /\ ~GamblerBlackjack) =>
        LET w == hands[1].wager
            ins == hands[1].insurance
            bought == last.asked = "insurance" /\ last.answer = "yes"
        IN  /\ last.asked \in {"insurance", "none"}
            /\ last.asked = "insurance" => 2 * last.before >= w
            /\ err = "none"
            /\ last.ret = "turn over" <=> DealerBlackjack
            /\ last.ret = "play turn" <=> ~DealerBlackjack
            /\ pc = IF DealerBlackjack THEN "finalize" ELSE "turn"
            /\ IF bought
               THEN /\ 2 * ins = w
                    /\ last.amount = ins
                    /\ NetChange = IF DealerBlackjack THEN 3 * ins - ins
                                   ELSE 0 - ins
               ELSE /\ ins = 0
                    /\ NetChange = 0

\* insurance bought and won against a dealer blackjack
C5_Witness ==
    /\ AfterPreTurn
    /\ dealer.cards = <<1, 10>>
    /\ ~GamblerBlackjack
    /\ last.asked = "insurance" /\ last.answer = "yes"
    /\ hands[1].insurance > 0
    /\ NetChange = 2 * hands[1].insurance

\* the hands whose wager was doubled: every hand is dealt, or split off, with
\* the auto-wager on it
WasDoubled(i) == hands[i].wager = 2 * auto_wager

\* C6 as claimed: after a Double the hand is Doubled whatever its total, and
\* no further action is asked on it.
C6_DoubledWhateverTotal ==
    (last.op = "Double" /\ err = "none") =>
        /\ hands[last.h].status = "Doubled"
        /\ pc # "ask"

\* C6, amended: after a Double the hand is in a final status, Busted when its
\* low total is over 21, Stood when its total is exactly 21 and Doubled
\* otherwise, and no further action is asked on it: it keeps its three cards
\* and is never again the hand being played.
C6_DoubleResolves ==
    /\ (last.op = "Double" /\ err = "none") =>
            (WasDoubled(last.h) /\ pc = "turn")
    /\ \A i \in 1..Len(hands) :
        WasDoubled(i) =>
            /\ Len(hands[i].cards) = 3
            /\ hands[i].status =
                    IF low_total(hands[i].cards) > 21 THEN "Busted"
                    ELSE IF final_total(hands[i].cards) = 21 THEN "Stood"
                    ELSE "Doubled"
            /\ ~(pc \in {"ask", "hit_split"} /\ cur = i)

\* a hand was doubled and went over 21
C6_Witness ==
    /\ last.op = "Double"
    /\ WasDoubled(last.h)
    /\ low_total(hands[last.h].cards) > 21
    /\ hands[last.h].status = "Busted"

\* C7: Double is offered only on a hand of two cards whose wager the bankroll
\* covers; it makes the wager twice what it was, takes the former wager from
\* the bankroll and adds one card to that hand and to no other, whatever the
\* total.
C7_Double ==
    [][/\ (pc = "ask" /\ "Double" \in hand_options(bankroll, hands[cur])) =>
            (Len(hands[cur].cards) = 2 /\ bankroll >= hands[cur].wager)
       /\ last'.op = "Double" =>
            /\ pc = "ask"
            /\ Len(hands[cur].cards) = 2
            /\ bankroll >= hands[cur].wager
            /\ err' = "none"
            /\ hands'[cur].wager = 2 * hands[cur].wager
            /\ bankroll' = bankroll - hands[cur].wager
            /\ Len(hands'[cur].cards) = 3
            /\ SubSeq(hands'[cur].cards, 1, 2) = hands[cur].cards
            /\ Len(hands') = Len(hands)
            /\ \A j \in 1..Len(hands) : j # cur => hands'[j] = hands[j]
            /\ dealer' = dealer]_vars

\* a hand was doubled to a total over 21, on the last of the bankroll
C7_Witness ==
    /\ last.op = "Double"
    /\ bankroll = 0
    /\ last.before = last.amount
    /\ Len(hands[last.h].cards) = 3
    /\ is_busted(hands[last.h].cards)
    /\ hands[last.h].wager = 2 * last.amount

\* C8: Split is offered only on a hand of two cards of equal value whose wager
\* the bankroll covers; the hand keeps its first card and its wager, a new hand
\* with the second card and the same wager is appended to the gambler's hands,
\* and the bankroll is down by one wager.
C8_Split ==
    [][/\ (pc = "ask" /\ "Split" \in hand_options(bankroll, hands[cur])) =>
            /\ Len(hands[cur].cards) = 2
            /\ hands[cur].cards[1] = hands[cur].cards[2]
            /\ bankroll >= hands[cur].wager
       /\ last'.op = "Split" =>
            LET h == hands[cur]
                n == Len(hands')
            IN  /\ pc = "ask"
                /\ Len(h.cards) = 2
                /\ h.cards[1] = h.cards[2]
                /\ bankroll >= h.wager
                /\ err' = "none"
                /\ n = Len(hands) + 1
                /\ hands'[cur] = [h EXCEPT !.cards = <<h.cards[1]>>]
                /\ hands'[n].cards = <<h.cards[2]>>
                /\ hands'[n].wager = h.wager
                /\ hands'[n].insurance = 0
                /\ hands'[n].status = "Pending"
                /\ hands'[cur].wager + hands'[n].wager = 2 * h.wager
                /\ bankroll' = bankroll - h.wager
                /\ \A j \in 1..Len(hands) : j # cur => hands'[j] = hands[j]
                /\ dealer' = dealer]_vars

\* a pair was split into two hands of one card, each with the wager
C8_Witness ==
    /\ last.op = "Split"
    /\ Len(hands) = 2
    /\ hands[1].cards = <<6>> /\ hands[2].cards = <<6>>
    /\ hands[1].wager = hands[2].wager
    /\ bankroll = last.before - hands[2].wager

\* C9: a double, split, insurance purchase or wager placement attempted with
\* too small a bankroll raises InsufficientBankroll and leaves the bankroll,
\* the gambler's hands (cards, wagers, insurance, status), the dealer's hand
\* and the auto-wager as they were.
C9_RejectedLeavesState ==
    [][err' = "InsufficientBankroll" =>
            /\ bankroll' = bankroll
            /\ hands' = hands
            /\ dealer' = dealer
            /\ auto_wager' = auto_wager]_vars

\* the dealer's turn has ended as the claim says
DealerEnded(d) ==
    \/ /\ d.status = "Stood"
       /\ final_total(d.cards) \in 17..21
       /\ ~(final_total(d.cards) = 17 /\ is_soft(d.cards))
       /\ ~is_busted(d.cards)
    \/ /\ d.status = "Busted"
       /\ low_total(d.cards) > 21

\* C10: in play_dealer_turn the dealer draws one card when the hand's total is
\* under 17 or a soft 17 and none otherwise, ends Stood on 17 to 21 (no soft
\* 17) or Busted over 21, and never doubles or splits: the gambler's hands and
\* the bankroll are as they were, and outside its turn the hand gets no card.
C10_DealerPolicy ==
    [][/\ pc = "dealer_loop" =>
            LET t == final_total(dealer.cards)
                must_hit == t < 17 \/ (t = 17 /\ is_soft(dealer.cards))
            IN  /\ dealer.status = "Playing"
                /\ IF must_hit
                   THEN /\ Len(dealer'.cards) = Len(dealer.cards) + 1
                        /\ SubSeq(dealer'.cards, 1, Len(dealer.cards))
                                = dealer.cards
                   ELSE dealer'.cards = dealer.cards
                /\ hands' = hands
                /\ bankroll' = bankroll
                /\ pc' \in {"dealer_loop", "settle"}
                /\ pc' = "dealer_loop" => dealer'.status = "Playing"
                /\ pc' = "settle" => DealerEnded(dealer')
       /\ (pc # "dealer_loop" /\ dealer.status # "None"
                /\ dealer'.status # "None") =>
            dealer'.cards = dealer.cards]_vars

\* the dealer drew on a soft 17 and then stood
C10_Witness ==
    /\ pc = "settle"
    /\ last.op = "dealer_pass"
    /\ dealer.status = "Stood"
    /\ Len(dealer.cards) >= 3
    /\ dealer.cards[1] = 1 /\ dealer.cards[2] = 6

Terminal == {"Stood", "Doubled", "Busted", "Blackjack"}

\* C11: the gambler's hands are played in the order they were appended, one
\* at a time: every hand before a hand that is being played, or was played, is
\* in a final status, at most one hand is Playing, and the dealer's hand stays
\* Pending with its two cards until every hand of the gambler is in a final
\* status.
C11_PlayOrder ==
    /\ \A j \in 1..Len(hands) :
        hands[j].status # "Pending" =>
            \A i \in 1..(j - 1) : hands[i].status \in Terminal
    /\ Cardinality({i \in 1..Len(hands) : hands[i].status = "Playing"}) <= 1
    /\ (dealer.status \notin {"None", "Pending"} \/ Len(dealer.cards) > 2) =>
            \A i \in 1..Len(hands) : hands[i].status \in Terminal

\* the hand a split appended is being played after the hand it was split from
C11_Witness ==
    /\ Len(hands) = 2
    /\ hands[1].status \in Terminal
    /\ hands[2].status = "Playing"
    /\ dealer.status = "Pending"

\* a round is under way: cards are dealt and not yet discarded
InRound ==
    pc \in {"pre_turn", "turn", "hit_split", "ask", "dealer", "dealer_loop",
            "settle", "finalize"}

\* how far play is from the end of the round
PhaseRank ==
    CASE pc = "pre_turn" -> 6
      [] pc \in {"turn", "hit_split", "ask"} -> 5
      [] pc = "dealer" -> 4
      [] pc = "dealer_loop" -> 3
      [] pc = "settle" -> 2
      [] pc = "finalize" -> 1
      [] OTHER -> 0

\* the cards' values a hand can still take before it is over
HandRoom(hand) ==
    IF hand.status \in Terminal THEN 0
    ELSE (IF hand.status = "Pending" THEN 23 ELSE 22) - low_total(hand.cards)

\* the dealer stops drawing at 17, so a dealer's low total is at most 26
DealerRoom == 27 - low_total(dealer.cards)

\* phase, then the bankroll (a split and a double each cost a wager), then the
\* room left in the hands
Measure ==
    <<PhaseRank, bankroll,
      SumSeq([i \in 1..Len(hands) |-> HandRoom(hands[i])]) + DealerRoom>>

LexLess(a, b) ==
    \/ a[1] < b[1]
    \/ a[1] = b[1] /\ a[2] < b[2]
    \/ a[1] = b[1] /\ a[2] = b[2] /\ a[3] < b[3]

\* C12: every round dealt completes.  A round under way can always take a
\* step (the gambler who answers always has Stand to choose, the shoe always
\* deals), each step of a round strictly lowers a measure of three naturals
\* (the phase of the round, the bankroll, the room left in the hands), and a
\* round is left only by finalize_turn discarding the hands: never by an
\* exception or an exit in mid-round.
C12_RoundCompletes ==
    /\ [](InRound => ENABLED Next)
    /\ [][InRound =>
            /\ LexLess(Measure', Measure)
            /\ \A k \in 1..3 : Measure'[k] >= 0
            /\ InRound' \/ (pc = "finalize" /\ pc' = "loop" /\ hands' = <<>>)
         ]_vars

\* a round with a split hand and a dealer who drew has reached finalize_turn
C12_Witness ==
    /\ pc = "finalize"
    /\ last.op = "settle_up"
    /\ Len(hands) = 2
    /\ Len(dealer.cards) > 2

\* the low total of the first k cards of a hand
LowOfFirst(cards, k) == low_total(SubSeq(cards, 1, k))

\* C13: each card raises a gambler hand's low total; right after a Hit the
\* hand is Stood when its total is 21, Busted when its low total is above 21
\* and Playing otherwise; a hand whose low total is above 21 is Busted and the
\* gambler is never asked for an action on it.
C13_HitOutcome ==
    /\ \A i \in 1..Len(hands) : \A k \in 1..(Len(hands[i].cards) - 1) :
            LowOfFirst(hands[i].cards, k) < LowOfFirst(hands[i].cards, k + 1)
    /\ last.op = "Hit" =>
            hands[last.h].status =
                IF final_total(hands[last.h].cards) = 21 THEN "Stood"
                ELSE IF low_total(hands[last.h].cards) > 21 THEN "Busted"
                ELSE "Playing"
    /\ \A i \in 1..Len(hands) :
            low_total(hands[i].cards) > 21 =>
                /\ hands[i].status = "Busted"
                /\ ~(pc = "ask" /\ cur = i)

\* a hand hit twice: the first card left it Playing, the second took it over 21
C13_Witness ==
    /\ last.op = "Hit"
    /\ Len(hands[last.h].cards) = 4
    /\ LowOfFirst(hands[last.h].cards, 3) < 21
    /\ hands[last.h].status = "Busted"

\* the hands of a split pair of Aces: after a split, the hands that begin
\* with an Ace
SplitAces == {i \in 1..Len(hands) : Len(hands) >= 2 /\ is_ace(hands[i].cards[1])}

\* C14: each hand of a split pair of Aces gets one more card and is at once
\* Blackjack when that card counts 10 and Stood otherwise: it holds one card
\* while it waits (Pending or Playing) and two cards from then on, and the
\* gambler is never asked for an action on it.
C14_SplitAces ==
    \A i \in SplitAces :
        /\ ~(pc = "ask" /\ cur = i)
        /\ \/ /\ Len(hands[i].cards) = 1
              /\ hands[i].status \in {"Pending", "Playing"}
              /\ pc \in {"ask", "turn", "hit_split"}
           \/ /\ Len(hands[i].cards) = 2
              /\ hands[i].status =
                    IF hands[i].cards[2] = 10 THEN "Blackjack" ELSE "Stood"

\* a round ending with one hand of the split Aces a Blackjack, the other Stood
C14_Witness ==
    /\ pc = "finalize"
    /\ SplitAces = {1, 2}
    /\ hands[1].status = "Blackjack"
    /\ hands[2].status = "Stood"

\* the gambler's hand is the hand dealt, and it is a blackjack
DealtBlackjack ==
    /\ Len(hands) = 1
    /\ Len(hands[1].cards) = 2
    /\ is_blackjack(hands[1].cards)

\* C15 as stated: pre-turn resolution puts a hand dealt a blackjack into status
\* Blackjack.
C15_PreTurnSetsBlackjack ==
    (DealtBlackjack /\ AfterPreTurn) => hands[1].status = "Blackjack"

\* C15: a hand dealt a blackjack is resolved by pre-turn resolution, which
\* returns 'turn over' for it: the hand is never played, and its status stays
\* Pending from the deal until finalize_turn discards it.
C15_DealtBlackjackNotPlayed ==
    DealtBlackjack =>
        /\ hands[1].status = "Pending"
        /\ pc \in {"pre_turn", "finalize"}
        /\ pc = "finalize" => (AfterPreTurn /\ last.ret = "turn over")

\* a blackjack paid 3:2 by pre-turn resolution, about to be discarded
C15_Witness ==
    /\ DealtBlackjack
    /\ AfterPreTurn
    /\ pc = "finalize"
    /\ NetChange = (5 * hands[1].wager) \div 2

\* the doubled hands whose low total is above 21
DoubledOver21 ==
    {i \in 1..Len(hands) : WasDoubled(i) /\ low_total(hands[i].cards) > 21}

\* C16: a doubled hand whose low total is above 21 is settled as a loss:
\* settle_up credits it nothing, whatever the dealer's hand, a Busted one
\* included; with no other hand, the bankroll is what it was before settle_up.
C16_DoubledBustLoses ==
    last.op = "settle_up" =>
        /\ \A i \in DoubledOver21 :
            /\ settle_hand(hands[i], dealer) = "loss"
            /\ settled[i] = 0
        /\ DoubledOver21 = 1..Len(hands) => NetChange = 0

\* a doubled hand over 21 settled against a dealer who busted, drawn out by
\* the other hand of the split
C16_Witness ==
    /\ last.op = "settle_up"
    /\ DoubledOver21 # {}
    /\ dealer.status = "Busted"

\* C17: play_pre_turn returns 'turn over' exactly when the gambler's dealt
\* hand or the dealer's dealt hand is a blackjack, whatever the gambler answers
\* about even money or insurance, and 'play turn' exactly when neither is; in
\* that case the cards and the status of both hands are what they were, and
\* play goes on to the gambler's turn.
C17_PreTurnResult ==
    [][pc = "pre_turn" =>
        LET blackjack == is_blackjack(hands[1].cards) \/ is_blackjack(dealer.cards)
        IN  /\ last'.op = "play_pre_turn"
            /\ last'.ret = IF blackjack THEN "turn over" ELSE "play turn"
            /\ pc' = IF blackjack THEN "finalize" ELSE "turn"
            /\ ~blackjack =>
                /\ Len(hands') = 1
                /\ hands'[1].cards = hands[1].cards
                /\ hands'[1].status = hands[1].status
                /\ dealer' = dealer
      ]_vars

\* insurance was bought, the dealer had no blackjack: play goes on
C17_Witness ==
    /\ AfterPreTurn
    /\ last.ret = "play turn"
    /\ last.asked = "insurance"
    /\ last.answer = "yes"
    /\ hands[1].insurance > 0
    /\ hands[1].status = "Pending"

\* the round went past pre-turn resolution and the gambler's turn is over
GamblerTurnOver ==
    \/ pc \in {"dealer", "dealer_loop", "settle"}
    \/ pc = "finalize" /\ last.op = "settle_up"

\* some hand of the gambler finished Stood or Doubled
SomeStoodOrDoubled ==
    \E i \in 1..Len(hands) : hands[i].status \in {"Stood", "Doubled"}

\* the dealer's turn has been played to its end
DealerTurnPlayed == DealerEnded(dealer)

\* C18: in a round that went past pre-turn resolution the dealer's turn is
\* played exactly when some hand of the gambler ended Stood or Doubled: with
\* one, settle_up meets a dealer whose turn is over; with none, the dealer's
\* hand is still Pending with its two cards.  When every hand is Busted the
\* dealer drew nothing and every hand is settled as a loss.
C18_DealerTurn ==
    /\ GamblerTurnOver =>
        /\ \A i \in 1..Len(hands) : hands[i].status \in Terminal
        /\ ~SomeStoodOrDoubled =>
            dealer.status = "Pending" /\ Len(dealer.cards) = 2
        /\ pc \in {"dealer", "dealer_loop"} => SomeStoodOrDoubled
        /\ (SomeStoodOrDoubled /\ pc \in {"settle", "finalize"}) =>
            DealerTurnPlayed
    /\ (last.op = "settle_up"
            /\ \A i \in 1..Len(hands) : hands[i].status = "Busted") =>
        /\ dealer.status = "Pending" /\ Len(dealer.cards) = 2
        /\ \A i \in 1..Len(hands) : settled[i] = 0
        /\ NetChange = 0

\* the gambler's hand Busted: settled with the dealer's hand not played
C18_Witness ==
    /\ last.op = "settle_up"
    /\ Len(hands) >= 1
    /\ \A i \in 1..Len(hands) : hands[i].status = "Busted"
    /\ dealer.status = "Pending"

\* C19: at the head of the round loop a round is dealt only to a gambler who
\* is not finished (auto-wager and bankroll both nonzero) and whose auto-wager
\* is covered by the bankroll, so place_auto_wager never raises and takes just
\* the auto-wager; a gambler whose auto-wager or bankroll is 0 there is dealt
\* no round: the session ends, and nothing happens after it.
C19_RoundDealt ==
    [][/\ pc # "done"
       /\ pc = "loop" =>
            /\ pc' \in {"pre_turn", "done"}
            /\ err' = "none"
            /\ is_finished(bankroll, auto_wager) => pc' = "done"
            /\ pc' = "done" =>
                /\ hands' = <<>> /\ dealer' = NoHand
                /\ bankroll' = bankroll
            /\ pc' = "pre_turn" =>
                /\ auto_wager' # 0 /\ bankroll # 0
                /\ auto_wager' <= bankroll
                /\ bankroll' = bankroll - auto_wager'
                /\ hands'[1].wager = auto_wager'
      ]_vars

\* a round dealt to a gambler with $1.50: the auto-wager of $1 was taken
C19_Witness ==
    /\ pc = "pre_turn"
    /\ last.op = "place_auto_wager"
    /\ last.before = 3
    /\ auto_wager = 2
    /\ bankroll = 1

\* C20: no hand is carried from one round into the next.  Between rounds and
\* at the end of the session neither player holds a hand, so whenever pre-turn
\* resolution runs the gambler holds one hand, of 2 cards, Pending, with the
\* auto-wager on it and no insurance, and the dealer one hand of 2 cards.
C20_NoCarryOver ==
    /\ pc \in {"loop", "done"} => (hands = <<>> /\ dealer = NoHand)
    /\ pc = "pre_turn" =>
        /\ Len(hands) = 1
        /\ Len(hands[1].cards) = 2
        /\ hands[1].status = "Pending"
        /\ hands[1].wager = auto_wager
        /\ hands[1].insurance = 0
        /\ dealer.status = "Pending"
        /\ Len(dealer.cards) = 2

\* a round has been finalized and the gambler can be dealt another
C20_Witness ==
    /\ pc = "loop"
    /\ last.op = "finalize_turn"
    /\ hands = <<>>
    /\ dealer = NoHand
    /\ ~is_finished(bankroll, auto_wager)
    /\ can_place_auto_wager(bankroll, auto_wager)

\* C21: while a round goes on, a hand's status only moves forward.  A hand
\* that is Stood, Doubled, Busted or Blackjack keeps its status, cards and
\* wager; a Playing hand stays Playing or becomes final; only a hand that was
\* Pending, or one a split has just appended, is Pending.
C21_StatusForward ==
    [][(hands # <<>> /\ hands' # <<>>) =>
        /\ Len(hands') >= Len(hands)
        /\ \A i \in 1..Len(hands) :
            /\ hands[i].status \in Terminal =>
                /\ hands'[i].status = hands[i].status
                /\ hands'[i].cards = hands[i].cards
                /\ hands'[i].wager = hands[i].wager
            /\ hands[i].status = "Playing" =>
                hands'[i].status \in Terminal \cup {"Playing"}
            /\ hands[i].status = "Pending" =>
                hands'[i].status \in {"Pending", "Playing"}
        /\ \A i \in (Len(hands) + 1)..Len(hands') : hands'[i].status = "Pending"
      ]_vars

\* the first hand of a split is final while the second is being hit
C21_Witness ==
    /\ Len(hands) = 2
    /\ hands[1].status \in Terminal
    /\ hands[2].status = "Playing"
    /\ last.op = "Hit"
    /\ last.h = 2

\* C22: whenever settle_up settles a hand of the gambler that is not Busted,
\* the dealer's hand has been played to Stood or Busted: no such hand, a split
\* Ace's Blackjack included, is settled against a dealer's hand still Pending.
C22_SettledAgainstPlayedDealer ==
    last.op = "settle_up" =>
        \A i \in 1..Len(hands) :
            hands[i].status # "Busted" => dealer.status \in {"Stood", "Busted"}

\* C23: whenever the gambler is asked for an action on a hand
\* (get_gambler_hand_action), the hand is Playing, holds at least 2 cards and
\* its best total is below 21, also right after the second card of a split
\* hand was dealt.
C23_AskedBelow21 ==
    pc = "ask" =>
        /\ hands[cur].status = "Playing"
        /\ Len(hands[cur].cards) >= 2
        /\ final_total(hands[cur].cards) < 21

\* C24: a hand gets at most one composite payout in a round.  A round that
\* play_pre_turn ended ('turn over') goes to finalize_turn and is not settled;
\* a round that goes on gets nothing from play_pre_turn; settle_up runs once,
\* on hands not settled before, and credits each hand in order nothing, its
\* wager or twice its wager, never its insurance; finalize_turn pays nothing.
C24_OnePayout ==
    [][/\ (last.op = "play_pre_turn" /\ last.ret = "turn over") =>
            last'.op = "finalize_turn"
       /\ (pc = "pre_turn" /\ pc' = "turn") =>
            bankroll' = bankroll - hands'[1].insurance
       /\ last'.op = "settle_up" =>
            /\ pc = "settle"
            /\ last.op # "play_pre_turn"
            /\ settled = <<>>
            /\ hands' = hands
            /\ Len(settled') = Len(hands)
            /\ \A i \in 1..Len(hands) :
                settled'[i] \in {0, hands[i].wager, 2 * hands[i].wager}
            /\ bankroll' = bankroll + SumSeq(settled')
       /\ pc = "finalize" => (last'.op = "finalize_turn" /\ bankroll' = bankroll)
       /\ pc \in {"turn", "hit_split", "ask", "dealer", "dealer_loop"} =>
            bankroll' <= bankroll
      ]_vars

\* a hand that won at settlement after its insurance was lost in pre-turn
C24_Witness ==
    /\ last.op = "settle_up"
    /\ hands[1].insurance > 0
    /\ settled[1] = 2 * hands[1].wager
    /\ NetChange = settled[1]

\* C25: throughout a round every hand's wager is the auto-wager or twice
\* it.  A hand with twice the auto-wager was doubled once: it holds 3 cards
\* and its status is final, so it is neither doubled again nor split; a hand
\* waiting to be played, a split hand among them, carries the auto-wager.
C25_WagerOnceOrTwice ==
    \A i \in 1..Len(hands) :
        /\ hands[i].wager \in {auto_wager, 2 * auto_wager}
        /\ auto_wager > 0
        /\ WasDoubled(i) =>
            /\ Len(hands[i].cards) = 3
            /\ hands[i].status \in {"Doubled", "Stood", "Busted"}
            /\ ~(pc = "ask" /\ cur = i)
        /\ (hands[i].status = "Pending" \/ Len(hands[i].cards) <= 2) =>
            hands[i].wager = auto_wager

\* after a split one hand was doubled; the other carries the auto-wager
C25_Witness ==
    /\ Len(hands) = 2
    /\ WasDoubled(1)
    /\ hands[2].wager = auto_wager
    /\ hands[2].status \in Terminal
    /\ last.op = "settle_up"

====
